---- MODULE Spec2Model ----
(***************************************************************************)
(* The remote-data synchronisation and caching layer of the beehive        *)
(* dashboard: GitHubDataLoader (src/data_loader.py) with its module-level  *)
(* entry points, the background monitor thread and the remote repository.  *)
(*                                                                         *)
(* The loader takes no lock, so every read or write of a shared attribute  *)
(* and every network call is one step of the thread that performs it; the  *)
(* position of each thread is the source line it is about to execute.      *)
(***************************************************************************)
EXTENDS Integers, FiniteSets, Sequences, TLC

\* ------------------------------------------------------------- bounds
\* Number of successive contents each remote artifact can take.
MaxVersion == 2

\* ------------------------------------------------------------- values
\* Python's None, for a fingerprint and for an absent local.
None == 0

Artifacts == {"beehive_data.json", "hives_config.json"}

\* The blob SHA the contents API reports for version v of a file: it
\* differs exactly when the content differs.
Sha(filename, v) == IF filename = "beehive_data.json" THEN 10 + v ELSE 20 + v

\* json.loads of the raw text of version v of a file. Version 0 of
\* hives_config.json is the JSON literal null, which parses to None; every
\* other version is a list of hives.
Json(filename, v) ==
    IF filename = "beehive_data.json" THEN 100 + v
    ELSE IF v = 0 THEN None ELSE 200 + v

\* A reference to None; a reference to an object is [rid |-> the reload that
\* built the object, val |-> its parsed content].
NoObj == [rid |-> 0, val |-> 0]

NoPair == [d |-> NoObj, c |-> NoObj]

\* The threads serving dashboard callbacks and API endpoints.
Callers == {"dash", "api"}
\* The monitor threads start_monitoring can have alive at once.
Monitors == {"m1", "m2"}
Threads == Callers \cup Monitors

\* The locals of the call a thread is in, as they are before its first line.
\*   op             the entry point being served
\*   data_hash, config_hash, data_updated, config_updated
\*                  the locals of check_for_updates
\*   cause          why line 116 took or skipped the reload: "no_data" or
\*                  "no_config" (the operand that found None), "changed" or
\*                  "unchanged" (the result of check_for_updates)
\*   data, hives_config, df
\*                  the locals of load_data_with_cache
\*   failed         where the try block of load_data_with_cache raised:
\*                  "artifact" (a fetch, a parse or the conversion, lines
\*                  121-126), "summary" (the message of line 132), or "no"
\*   copy           self.data_cache.copy() of a return statement
\*   lookups        the calls of _get_file_hash_from_github made so far
\*   fetches        the calls of load_json_from_github made so far
\*   wrote          load_data_with_cache has assigned data_cache or
\*                  config_cache in this call
\*   own            copy is a new object, not the cached one
\*   prev           history: the content of the dataset the thread's previous
\*                  call returned, when no commit has been made since that
\*                  call began
\*   quiet          history: no commit has been made since this call began
\*   retry          history: the thread's previous call detected a change,
\*                  failed to reload and returned the outdated cache, and no
\*                  commit has been made since that call began
NoFrame ==
    [op |-> "none", data_hash |-> None, config_hash |-> None,
     data_updated |-> FALSE, config_updated |-> FALSE, cause |-> "none",
     data |-> None, hives_config |-> None, df |-> NoObj, failed |-> "no",
     copy |-> NoObj, lookups |-> 0, fetches |-> 0, wrote |-> FALSE,
     own |-> FALSE, prev |-> None, quiet |-> FALSE, retry |-> FALSE]

\* What a finished call handed to its caller: the kind of result, the
\* dataset and the config of a tuple, the boolean of a check or of
\* 'auto_update'. own: the dataset is an object nothing else refers to.
\* fresh (history): no commit has been made since the call began.
\* stale (history): the call detected a change, its reload failed and it
\* returned what the cache held, which was not the content on the repository.
NoResult ==
    [kind |-> "none", df |-> NoObj, cfg |-> NoObj, flag |-> FALSE,
     own |-> FALSE, fresh |-> FALSE, stale |-> FALSE]

\* The environment variables __init__ reads (lines 20-22), and what each
\* can be at process start: not set, set to the empty string, or set.
EnvNames == {"GITHUB_REPO_OWNER", "GITHUB_REPO_NAME", "GITHUB_TOKEN"}
Unset == "None"
EnvValues == {Unset, "", "value"}

\* The content of a dataset before its holder changed it in place: a
\* changed content is written as the negative of the original.
Original(val) == IF val < 0 THEN -val ELSE val

VARIABLES
    environ,           \* os.environ: variable name -> value
    github_loader,     \* the module-level name github_loader (line 171)
    headers,           \* self.headers, as the set of the header names
    remote,            \* filename -> version of the content now on GitHub
    data_cache,        \* self.data_cache
    config_cache,      \* self.config_cache
    last_data_hash,    \* self.last_data_hash
    last_config_hash,  \* self.last_config_hash
    monitoring,        \* self.monitoring
    last_good,         \* history: the pair the last completed reload stored
    pc,                \* thread -> the line it executes next
    frame,             \* thread -> the locals of the call it is in
    ret                \* thread -> the result of its last finished call

vars == <<environ, github_loader, headers, remote, data_cache, config_cache, last_data_hash, last_config_hash,
          monitoring, last_good, pc, frame, ret>>

\* os.getenv(name): the value, or None when the variable is not set.
getenv(name) == environ[name]

\* Python's truth value of what os.getenv returned: None and the empty
\* string are false.
Truthy(v) == v \notin {Unset, ""}

\* The process after 'github_loader = GitHubDataLoader()' (line 171) has
\* run in a complete environment.
Init ==
    /\ environ = [n \in EnvNames |-> "value"]
    /\ github_loader = "loader"
    /\ headers = {"Authorization", "Accept"}
    /\ remote = [a \in Artifacts |-> 1]
    /\ data_cache = NoObj
    /\ config_cache = NoObj
    /\ last_data_hash = None
    /\ last_config_hash = None
    /\ monitoring = FALSE
    /\ last_good = NoPair
    /\ pc = [t \in Threads |-> IF t \in Monitors THEN "dead" ELSE "idle"]
    /\ frame = [t \in Threads |-> NoFrame]
    /\ ret = [t \in Threads |-> NoResult]

\* The process before line 171 has run: the environment is whatever the
\* deployment provides, the name github_loader is not bound and no loader
\* exists. The variables that stand for the loader's attributes have no
\* meaning yet and hold arbitrary values of their kind.
InitEnv ==
    /\ environ \in [EnvNames -> EnvValues]
    /\ github_loader = "unbound"
    /\ headers = {}
    /\ remote = [a \in Artifacts |-> 1]
    /\ data_cache \in {NoObj, [rid |-> 1, val |-> Json("beehive_data.json", 1)]}
    /\ config_cache = NoObj
    /\ last_data_hash \in {None, Sha("beehive_data.json", 1)}
    /\ last_config_hash = None
    /\ monitoring \in BOOLEAN
    /\ last_good = NoPair
    /\ pc = [t \in Threads |-> IF t \in Monitors THEN "dead" ELSE "idle"]
    /\ frame = [t \in Threads |-> NoFrame]
    /\ ret = [t \in Threads |-> NoResult]

\* __init__ with the credential required as well (line 24 testing all three
\* variables).
GitHubDataLoader_init_requires_token ==
    /\ github_loader = "unbound"
    /\ IF ~(\A n \in EnvNames : Truthy(getenv(n)))
       THEN /\ github_loader' = "ValueError"
            /\ UNCHANGED <<headers, data_cache, config_cache, last_data_hash,
                           last_config_hash, monitoring>>
       ELSE /\ github_loader' = "loader"
            /\ headers' = {"Authorization", "Accept"}
            /\ data_cache' = NoObj
            /\ config_cache' = NoObj
            /\ last_data_hash' = None
            /\ last_config_hash' = None
            /\ monitoring' = FALSE
    /\ UNCHANGED <<environ, remote, last_good, pc, frame, ret>>

\* Line 171, github_loader = GitHubDataLoader(), with __init__ (lines
\* 19-42): a ValueError when the owner or the name is false (line 24, raised
\* at line 28 before any attribute of the cache is assigned, so the import of
\* the module fails); otherwise the Authorization header only with a
\* token (lines 32-33), the Accept header (line 34), and the cache
\* attributes of lines 37-42.
GitHubDataLoader_init ==
    /\ github_loader = "unbound"
    /\ IF ~(Truthy(getenv("GITHUB_REPO_OWNER")) /\ Truthy(getenv("GITHUB_REPO_NAME")))
       THEN /\ github_loader' = "ValueError"
            /\ UNCHANGED <<headers, data_cache, config_cache, last_data_hash,
                           last_config_hash, monitoring>>
       ELSE /\ github_loader' = "loader"
            /\ headers' = (IF Truthy(getenv("GITHUB_TOKEN"))
                            THEN {"Authorization"} ELSE {}) \cup {"Accept"}
            /\ data_cache' = NoObj
            /\ config_cache' = NoObj
            /\ last_data_hash' = None
            /\ last_config_hash' = None
            /\ monitoring' = FALSE
    /\ UNCHANGED <<environ, remote, last_good, pc, frame, ret>>

\* The reloads whose objects something still refers to.
LiveRids ==
    {data_cache.rid, config_cache.rid, last_good.d.rid}
        \cup {frame[t].df.rid : t \in Threads}
        \cup {frame[t].copy.rid : t \in Threads}
        \cup {ret[t].df.rid : t \in Threads}
        \cup {ret[t].cfg.rid : t \in Threads}

\* The name of the next reload: any name no live object carries tells its
\* objects from all others, and the least one is taken.
FreshRid ==
    CHOOSE n \in 1..(3 + 6 * Cardinality(Threads)) :
        /\ n \notin LiveRids
        /\ \A k \in 1..(n - 1) : k \in LiveRids

\* A thread moves to line `at` with its locals changed to f.
Step(t, at, f) ==
    /\ pc' = [pc EXCEPT ![t] = at]
    /\ frame' = [frame EXCEPT ![t] = f]

\* A thread begins entry point o at line `at`.
Begin(t, o, at) ==
    /\ Step(t, at, [NoFrame EXCEPT !.op = o])
    /\ ret' = [ret EXCEPT ![t] = NoResult]

\* The call of a request thread ends and hands r to its caller.
Finish(t, r) ==
    /\ Step(t, "idle", NoFrame)
    /\ ret' = [ret EXCEPT ![t] = r]

\* ------------------------------------------------------------ remote
\* History: what the threads hold was returned before the latest commit.
Committed ==
    /\ ret' = [t \in Threads |-> [ret[t] EXCEPT !.fresh = FALSE]]
    /\ frame' = [t \in Threads |-> [frame[t] EXCEPT !.prev = None, !.quiet = FALSE,
                                            !.retry = FALSE]]

\* A commit to the repository replaces the content of one file.
RemoteChange(a) ==
    /\ remote[a] < MaxVersion
    /\ remote' = [remote EXCEPT ![a] = @ + 1]
    /\ Committed
    /\ UNCHANGED <<environ, github_loader, headers, data_cache, config_cache,
                   last_data_hash, last_config_hash, monitoring, last_good,
                   pc>>

\* A commit that leaves the JSON literal null in hives_config.json.
RemoteNull ==
    /\ remote["hives_config.json"] # 0
    /\ remote' = [remote EXCEPT !["hives_config.json"] = 0]
    /\ Committed
    /\ UNCHANGED <<environ, github_loader, headers, data_cache, config_cache,
                   last_data_hash, last_config_hash, monitoring, last_good,
                   pc>>

\* _get_file_hash_from_github: the SHA of the file as it is now, or None
\* when the status is not 200 or the request raises.
HashOutcomes(filename) == {Sha(filename, remote[filename]), None}

\* _fetch_file_from_github_raw and load_json_from_github (lines 56-82): the
\* call returns the parsed content of the file as it is now, or it raises
\* (status not 200, request error, empty text, invalid JSON).
FetchOutcomes(filename) ==
    {[raised |-> FALSE, val |-> Json(filename, remote[filename])],
     [raised |-> TRUE, val |-> None]}

\* --------------------------------------------------- check_for_updates
\* Line 88: data_hash = self._get_file_hash_from_github('beehive_data.json')
check_for_updates_88(t) ==
    /\ pc[t] = "C88"
    /\ \E h \in HashOutcomes("beehive_data.json") :
           Step(t, "C89", [frame[t] EXCEPT !.data_hash = h, !.lookups = @ + 1])
    /\ UNCHANGED <<environ, github_loader, headers, remote, data_cache,
                   config_cache, last_data_hash, last_config_hash, monitoring,
                   last_good, ret>>

\* Line 89 with no handler around the lookup (lines 53, 109, 157): a lookup
\* that fails ends the monitor thread that made it.
check_for_updates_89_raises(t) ==
    /\ pc[t] = "C89"
    /\ \E h \in HashOutcomes("hives_config.json") :
           IF h = None /\ t \in Monitors
           THEN Step(t, "dead", NoFrame)
           ELSE Step(t, "C92", [frame[t] EXCEPT !.config_hash = h, !.lookups = @ + 1])
    /\ UNCHANGED <<environ, github_loader, headers, remote, data_cache,
                   config_cache, last_data_hash, last_config_hash, monitoring,
                   last_good, ret>>

\* Line 89: config_hash = self._get_file_hash_from_github('hives_config.json')
check_for_updates_89(t) ==
    /\ pc[t] = "C89"
    /\ \E h \in HashOutcomes("hives_config.json") :
           Step(t, "C92", [frame[t] EXCEPT !.config_hash = h, !.lookups = @ + 1])
    /\ UNCHANGED <<environ, github_loader, headers, remote, data_cache,
                   config_cache, last_data_hash, last_config_hash, monitoring,
                   last_good, ret>>

\* Line 92, left operand: data_hash != self.last_data_hash. "and" evaluates
\* its right operand, a second read of the attribute, only when this holds.
check_for_updates_92(t) ==
    /\ pc[t] = "C92"
    /\ IF frame[t].data_hash # last_data_hash
       THEN Step(t, "C92n", frame[t])
       ELSE Step(t, "C93", [frame[t] EXCEPT !.data_updated = FALSE])
    /\ UNCHANGED <<environ, github_loader, headers, remote, data_cache,
                   config_cache, last_data_hash, last_config_hash, monitoring,
                   last_good, ret>>

\* Line 92 without its right operand: any difference counts, also from a
\* baseline that is None.
check_for_updates_92n_any_difference(t) ==
    /\ pc[t] = "C92n"
    /\ Step(t, "C93", [frame[t] EXCEPT !.data_updated = TRUE])
    /\ UNCHANGED <<environ, github_loader, headers, remote, data_cache,
                   config_cache, last_data_hash, last_config_hash, monitoring,
                   last_good, ret>>

\* Line 92, right operand: self.last_data_hash is not None.
check_for_updates_92n(t) ==
    /\ pc[t] = "C92n"
    /\ Step(t, "C93", [frame[t] EXCEPT !.data_updated = (last_data_hash # None)])
    /\ UNCHANGED <<environ, github_loader, headers, remote, data_cache,
                   config_cache, last_data_hash, last_config_hash, monitoring,
                   last_good, ret>>

\* Line 93, left operand: config_hash != self.last_config_hash.
check_for_updates_93(t) ==
    /\ pc[t] = "C93"
    /\ IF frame[t].config_hash # last_config_hash
       THEN Step(t, "C93n", frame[t])
       ELSE Step(t, "C96", [frame[t] EXCEPT !.config_updated = FALSE])
    /\ UNCHANGED <<environ, github_loader, headers, remote, data_cache,
                   config_cache, last_data_hash, last_config_hash, monitoring,
                   last_good, ret>>

\* Line 93 in a detector that also invalidates: a config counted as updated
\* clears config_cache.
check_for_updates_93n_invalidates(t) ==
    /\ pc[t] = "C93n"
    /\ config_cache' = IF last_config_hash # None THEN NoObj ELSE config_cache
    /\ Step(t, "C96", [frame[t] EXCEPT !.config_updated = (last_config_hash # None)])
    /\ UNCHANGED <<environ, github_loader, headers, remote, data_cache,
                   last_data_hash, last_config_hash, monitoring, last_good,
                   ret>>

\* Line 93, right operand: self.last_config_hash is not None.
check_for_updates_93n(t) ==
    /\ pc[t] = "C93n"
    /\ Step(t, "C96", [frame[t] EXCEPT !.config_updated = (last_config_hash # None)])
    /\ UNCHANGED <<environ, github_loader, headers, remote, data_cache,
                   config_cache, last_data_hash, last_config_hash, monitoring,
                   last_good, ret>>

\* Line 96 moved under "if data_updated": the baseline follows only a
\* reported change.
check_for_updates_96_on_change_only(t) ==
    /\ pc[t] = "C96"
    /\ last_data_hash' = IF frame[t].data_updated THEN frame[t].data_hash
                         ELSE last_data_hash
    /\ Step(t, "C97", frame[t])
    /\ UNCHANGED <<environ, github_loader, headers, remote, data_cache,
                   config_cache, last_config_hash, monitoring, last_good,
                   ret>>

\* Line 96: self.last_data_hash = data_hash
check_for_updates_96(t) ==
    /\ pc[t] = "C96"
    /\ last_data_hash' = frame[t].data_hash
    /\ Step(t, "C97", frame[t])
    /\ UNCHANGED <<environ, github_loader, headers, remote, data_cache,
                   config_cache, last_config_hash, monitoring, last_good,
                   ret>>

\* Lines 97-107 with line 116 ignoring the result: the reload is taken
\* whatever check_for_updates returns.
check_for_updates_97_reloads_anyway(t) ==
    LET r == frame[t].data_updated \/ frame[t].config_updated IN
    /\ pc[t] = "C97"
    /\ last_config_hash' = frame[t].config_hash
    /\ IF t \in Monitors
       THEN Step(t, "P153", NoFrame) /\ UNCHANGED ret
       ELSE IF frame[t].op = "check"
       THEN Finish(t, [NoResult EXCEPT !.kind = "bool", !.flag = r])
       ELSE /\ Step(t, "L121",
                    [frame[t] EXCEPT !.data_hash = None, !.config_hash = None,
                                     !.data_updated = FALSE, !.config_updated = FALSE,
                                     !.cause = IF r THEN "changed" ELSE "unchanged"])
            /\ UNCHANGED ret
    /\ UNCHANGED <<environ, github_loader, headers, remote, data_cache,
                   config_cache, last_data_hash, monitoring, last_good>>

\* Lines 97-107: self.last_config_hash = config_hash, then return
\* data_updated or config_updated. The monitor loop drops the result, sleeps
\* and tests its flag again (lines 155-156, 153); force_check_updates
\* returns it (line 231); load_data_with_cache takes its reload or skips it
\* (line 116).
check_for_updates_97(t) ==
    LET r == frame[t].data_updated \/ frame[t].config_updated IN
    /\ pc[t] = "C97"
    /\ last_config_hash' = frame[t].config_hash
    /\ IF t \in Monitors
       THEN Step(t, "P153", NoFrame) /\ UNCHANGED ret
       ELSE IF frame[t].op = "check"
       THEN Finish(t, [NoResult EXCEPT !.kind = "bool", !.flag = r])
       ELSE /\ Step(t, IF r THEN "L121" ELSE "L143",
                    [frame[t] EXCEPT !.data_hash = None, !.config_hash = None,
                                     !.data_updated = FALSE, !.config_updated = FALSE,
                                     !.cause = IF r THEN "changed" ELSE "unchanged"])
            /\ UNCHANGED ret
    /\ UNCHANGED <<environ, github_loader, headers, remote, data_cache,
                   config_cache, last_data_hash, monitoring, last_good>>

check_for_updates(t) ==
    \/ check_for_updates_88(t)
    \/ check_for_updates_89(t)
    \/ check_for_updates_92(t)
    \/ check_for_updates_92n(t)
    \/ check_for_updates_93(t)
    \/ check_for_updates_93n(t)
    \/ check_for_updates_96(t)
    \/ check_for_updates_97(t)

\* force_check_updates (lines 228-231): return github_loader.check_for_updates()
force_check_updates(t) ==
    /\ pc[t] = "idle"
    /\ Begin(t, "check", "C88")
    /\ UNCHANGED <<environ, github_loader, headers, remote, data_cache,
                   config_cache, last_data_hash, last_config_hash, monitoring,
                   last_good>>

\* -------------------------------------------------------- monitoring
\* Line 153 as "while True": the loop never tests the flag.
monitor_loop_153_forever(m) ==
    /\ pc[m] = "P153"
    /\ Step(m, "C88", [NoFrame EXCEPT !.op = "poll"])
    /\ UNCHANGED <<environ, github_loader, headers, remote, data_cache,
                   config_cache, last_data_hash, last_config_hash, monitoring,
                   last_good, ret>>

\* monitor_loop, line 153: while self.monitoring. A thread whose loop ends
\* is gone; one that stays calls check_for_updates (line 155); the sleep of
\* line 156 ends where the flag is tested again.
monitor_loop_153(m) ==
    /\ pc[m] = "P153"
    /\ IF monitoring
       THEN Step(m, "C88", [NoFrame EXCEPT !.op = "poll"])
       ELSE Step(m, "dead", NoFrame)
    /\ UNCHANGED <<environ, github_loader, headers, remote, data_cache,
                   config_cache, last_data_hash, last_config_hash, monitoring,
                   last_good, ret>>

\* load_beehive_data_from_json (lines 173-183), called by a dashboard callback.
load_beehive_data_from_json(t) ==
    /\ pc[t] = "idle"
    /\ Step(t, "B179",
            [NoFrame EXCEPT !.op = "load", !.quiet = TRUE,
                            !.prev = IF ret[t].kind = "ok" /\ ret[t].fresh
                                     THEN Original(ret[t].df.val) ELSE None,
                            !.retry = ret[t].kind = "ok" /\ ret[t].fresh
                                        /\ ret[t].stale])
    /\ ret' = [ret EXCEPT ![t] = NoResult]
    /\ UNCHANGED <<environ, github_loader, headers, remote, data_cache,
                   config_cache, last_data_hash, last_config_hash, monitoring,
                   last_good>>

\* load_beehive_data_from_json without lines 179-180: the load is attempted
\* whatever the flag is.
load_beehive_data_from_json_179_never_starts(t) ==
    /\ pc[t] = "B179"
    /\ Step(t, "L116", frame[t])
    /\ UNCHANGED <<environ, github_loader, headers, remote, data_cache,
                   config_cache, last_data_hash, last_config_hash, monitoring,
                   last_good, ret>>

\* Line 179: if not github_loader.monitoring
load_beehive_data_from_json_179(t) ==
    /\ pc[t] = "B179"
    /\ Step(t, IF monitoring THEN "L116" ELSE "S147", frame[t])
    /\ UNCHANGED <<environ, github_loader, headers, remote, data_cache,
                   config_cache, last_data_hash, last_config_hash, monitoring,
                   last_good, ret>>

\* A call of github_loader.start_monitoring() from outside the loader.
start_monitoring(t) ==
    /\ pc[t] = "idle"
    /\ Begin(t, "start", "S147")
    /\ UNCHANGED <<environ, github_loader, headers, remote, data_cache,
                   config_cache, last_data_hash, last_config_hash, monitoring,
                   last_good>>

\* start_monitoring has returned None to the thread.
Started == [NoResult EXCEPT !.kind = "done"]

\* start_monitoring, line 147: if self.monitoring: return. The return goes
\* to the caller, or to line 183 of load_beehive_data_from_json.
start_monitoring_147(t) ==
    /\ pc[t] = "S147"
    /\ IF ~monitoring
       THEN Step(t, "S150", frame[t]) /\ UNCHANGED ret
       ELSE IF frame[t].op = "start"
       THEN Finish(t, Started)
       ELSE Step(t, "L116", frame[t]) /\ UNCHANGED ret
    /\ UNCHANGED <<environ, github_loader, headers, remote, data_cache,
                   config_cache, last_data_hash, last_config_hash, monitoring,
                   last_good>>

\* start_monitoring, lines 150-162: self.monitoring = True, then a new
\* daemon thread starts monitor_loop.
start_monitoring_150(t) ==
    /\ pc[t] = "S150"
    /\ monitoring' = TRUE
    /\ \E m \in Monitors :
          /\ pc[m] = "dead"
          /\ pc' = [pc EXCEPT ![t] = IF frame[t].op = "start" THEN "idle" ELSE "L116",
                              ![m] = "P153"]
    /\ IF frame[t].op = "start"
       THEN /\ frame' = [frame EXCEPT ![t] = NoFrame]
            /\ ret' = [ret EXCEPT ![t] = Started]
       ELSE UNCHANGED <<frame, ret>>
    /\ UNCHANGED <<environ, github_loader, headers, remote, data_cache,
                   config_cache, last_data_hash, last_config_hash, last_good>>

\* stop_monitoring (lines 165-168): self.monitoring = False
stop_monitoring(t) ==
    /\ pc[t] = "idle"
    /\ monitoring' = FALSE
    /\ ret' = [ret EXCEPT ![t] = [NoResult EXCEPT !.kind = "stopped"]]
    /\ UNCHANGED <<environ, github_loader, headers, remote, data_cache,
                   config_cache, last_data_hash, last_config_hash, last_good,
                   pc, frame>>

\* refresh_data (lines 217-226), called by the refresh endpoint.
refresh_data(t) ==
    /\ pc[t] = "idle"
    /\ Begin(t, "refresh", "R223")
    /\ UNCHANGED <<environ, github_loader, headers, remote, data_cache,
                   config_cache, last_data_hash, last_config_hash, monitoring,
                   last_good>>

\* Line 223: github_loader.data_cache = None
refresh_data_223(t) ==
    /\ pc[t] = "R223"
    /\ data_cache' = NoObj
    /\ Step(t, "R224", frame[t])
    /\ UNCHANGED <<environ, github_loader, headers, remote, config_cache,
                   last_data_hash, last_config_hash, monitoring, last_good,
                   ret>>

\* Lines 224-226: github_loader.config_cache = None, then
\* return load_beehive_data_from_json()
refresh_data_224(t) ==
    /\ pc[t] = "R224"
    /\ config_cache' = NoObj
    /\ Step(t, "B179", frame[t])
    /\ UNCHANGED <<environ, github_loader, headers, remote, data_cache,
                   last_data_hash, last_config_hash, monitoring, last_good,
                   ret>>

\* ------------------------------------------------------- get_data_info
\* get_data_info (lines 193-215), called by the info endpoint.
get_data_info(t) ==
    /\ pc[t] = "idle"
    /\ Begin(t, "info", "I198")
    /\ UNCHANGED <<environ, github_loader, headers, remote, data_cache,
                   config_cache, last_data_hash, last_config_hash, monitoring,
                   last_good>>

\* Lines 214-215: any exception becomes the returned error string.
InfoError == [NoResult EXCEPT !.kind = "error"]

\* Line 198: data = github_loader.load_json_from_github('beehive_data.json')
get_data_info_198(t) ==
    /\ pc[t] = "I198"
    /\ \E x \in FetchOutcomes("beehive_data.json") :
          IF x.raised
          THEN Finish(t, InfoError)
          ELSE Step(t, "I199", [frame[t] EXCEPT !.data = x.val, !.fetches = @ + 1])
               /\ UNCHANGED ret
    /\ UNCHANGED <<environ, github_loader, headers, remote, data_cache,
                   config_cache, last_data_hash, last_config_hash, monitoring,
                   last_good>>

\* Lines 199-210 in a variant that keeps what it fetched: the parsed data
\* becomes data_cache.
get_data_info_199_caches(t) ==
    /\ pc[t] = "I199"
    /\ \E x \in FetchOutcomes("hives_config.json") :
          IF x.raised \/ x.val = None
          THEN Finish(t, InfoError) /\ UNCHANGED data_cache
          ELSE /\ Step(t, "I211", [frame[t] EXCEPT !.hives_config = x.val, !.fetches = @ + 1])
               /\ data_cache' = [rid |-> FreshRid, val |-> frame[t].data]
               /\ UNCHANGED ret
    /\ UNCHANGED <<environ, github_loader, headers, remote, config_cache,
                   last_data_hash, last_config_hash, monitoring, last_good>>

\* Lines 199-210: hives_config = github_loader.load_json_from_github(
\* 'hives_config.json'), then the summary of both values, in which
\* len(hives_config) raises on None and the record and hive keys raise on
\* content of another shape.
get_data_info_199(t) ==
    /\ pc[t] = "I199"
    /\ \E x \in FetchOutcomes("hives_config.json") :
          IF x.raised \/ x.val = None
          THEN Finish(t, InfoError)
          ELSE \/ Step(t, "I211", [frame[t] EXCEPT !.hives_config = x.val, !.fetches = @ + 1])
                  /\ UNCHANGED ret
               \/ Finish(t, InfoError)
    /\ UNCHANGED <<environ, github_loader, headers, remote, data_cache,
                   config_cache, last_data_hash, last_config_hash, monitoring,
                   last_good>>

\* Line 211: 'auto_update': github_loader.monitoring, and the return of the
\* dictionary.
get_data_info_211(t) ==
    /\ pc[t] = "I211"
    /\ Finish(t, [NoResult EXCEPT !.kind = "info", !.flag = monitoring])
    /\ UNCHANGED <<environ, github_loader, headers, remote, data_cache,
                   config_cache, last_data_hash, last_config_hash, monitoring,
                   last_good>>

\* ------------------------------------------------ load_data_with_cache
\* The call ends by raising to the caller of the entry point (line 141, or
\* the AttributeError of a return statement; lines 186-191 re-raise it).
Raise(t) == Finish(t, [NoResult EXCEPT !.kind = "raise"])

\* The call ends by returning the tuple (d, c) (lines 139, 143, 184).
\* History: the pair is not the content now on the repository.
Outdated(d, c) ==
    \/ d.val # Json("beehive_data.json", remote["beehive_data.json"])
    \/ c.val # Json("hives_config.json", remote["hives_config.json"])

Return(t, d, c) ==
    Finish(t, [NoResult EXCEPT !.kind = "ok", !.df = d, !.cfg = c,
                               !.own = frame[t].own, !.fresh = frame[t].quiet,
                               !.stale = (/\ frame[t].cause = "changed"
                                          /\ frame[t].failed # "no"
                                          /\ Outdated(d, c))])

\* Line 116, first operand: self.data_cache is None
load_data_with_cache_116(t) ==
    /\ pc[t] = "L116"
    /\ IF data_cache = NoObj
       THEN Step(t, "L121", [frame[t] EXCEPT !.cause = "no_data"])
       ELSE Step(t, "L116c", frame[t])
    /\ UNCHANGED <<environ, github_loader, headers, remote, data_cache,
                   config_cache, last_data_hash, last_config_hash, monitoring,
                   last_good, ret>>

\* Line 116, second operand: self.config_cache is None; the third operand
\* is the call of check_for_updates.
load_data_with_cache_116c(t) ==
    /\ pc[t] = "L116c"
    /\ IF config_cache = NoObj
       THEN Step(t, "L121", [frame[t] EXCEPT !.cause = "no_config"])
       ELSE Step(t, "C88", frame[t])
    /\ UNCHANGED <<environ, github_loader, headers, remote, data_cache,
                   config_cache, last_data_hash, last_config_hash, monitoring,
                   last_good, ret>>

\* Line 121: data = self.load_json_from_github('beehive_data.json'); an
\* exception goes to the handler of line 134.
load_data_with_cache_121(t) ==
    /\ pc[t] = "L121"
    /\ \E x \in FetchOutcomes("beehive_data.json") :
          IF x.raised
          THEN Step(t, "E137", [frame[t] EXCEPT !.failed = "artifact", !.fetches = @ + 1])
          ELSE Step(t, "L122", [frame[t] EXCEPT !.data = x.val, !.fetches = @ + 1])
    /\ UNCHANGED <<environ, github_loader, headers, remote, data_cache,
                   config_cache, last_data_hash, last_config_hash, monitoring,
                   last_good, ret>>

\* Line 122: hives_config = self.load_json_from_github('hives_config.json')
load_data_with_cache_122(t) ==
    /\ pc[t] = "L122"
    /\ \E x \in FetchOutcomes("hives_config.json") :
          IF x.raised
          THEN Step(t, "E137", [frame[t] EXCEPT !.failed = "artifact", !.fetches = @ + 1])
          ELSE Step(t, "L125", [frame[t] EXCEPT !.hives_config = x.val, !.fetches = @ + 1])
    /\ UNCHANGED <<environ, github_loader, headers, remote, data_cache,
                   config_cache, last_data_hash, last_config_hash, monitoring,
                   last_good, ret>>

\* Lines 125-129: df = pd.DataFrame(data) with its timestamp column
\* converted, which raises on content of the wrong shape, then
\* self.data_cache = df.
load_data_with_cache_125(t) ==
    /\ pc[t] = "L125"
    /\ \/ /\ data_cache' = [rid |-> FreshRid, val |-> frame[t].data]
          /\ Step(t, "L130", [frame[t] EXCEPT !.df = [rid |-> FreshRid, val |-> frame[t].data],
                                               !.wrote = TRUE])
       \/ /\ Step(t, "E137", [frame[t] EXCEPT !.failed = "artifact"])
          /\ UNCHANGED data_cache
    /\ UNCHANGED <<environ, github_loader, headers, remote, config_cache,
                   last_data_hash, last_config_hash, monitoring, last_good,
                   ret>>

\* Lines 130-132: self.config_cache = hives_config, the value parsed by the
\* same reload as df, then the summary message, whose len(hives_config)
\* raises TypeError on None and sends the call to the handler of line 134
\* with both attributes already assigned.
load_data_with_cache_130(t) ==
    /\ pc[t] = "L130"
    /\ IF frame[t].hives_config = None
       THEN /\ config_cache' = NoObj
            /\ Step(t, "E137", [frame[t] EXCEPT !.failed = "summary", !.wrote = TRUE])
            /\ UNCHANGED last_good
       ELSE /\ config_cache' = [rid |-> frame[t].df.rid, val |-> frame[t].hives_config]
            /\ last_good' = [d |-> frame[t].df, c |-> config_cache']
            /\ Step(t, "L143", [frame[t] EXCEPT !.wrote = TRUE])
    /\ UNCHANGED <<environ, github_loader, headers, remote, data_cache,
                   last_data_hash, last_config_hash, monitoring, ret>>

\* Line 137 without the raise of line 141: an empty cache is returned as it
\* is.
load_data_with_cache_137_swallows(t) ==
    /\ pc[t] = "E137"
    /\ IF data_cache # NoObj
       THEN Step(t, "E137c", frame[t]) /\ UNCHANGED ret
       ELSE Return(t, NoObj, NoObj)
    /\ UNCHANGED <<environ, github_loader, headers, remote, data_cache,
                   config_cache, last_data_hash, last_config_hash, monitoring,
                   last_good>>

\* Line 137, first operand: self.data_cache is not None; otherwise raise e
\* (line 141).
load_data_with_cache_137(t) ==
    /\ pc[t] = "E137"
    /\ IF data_cache # NoObj
       THEN Step(t, "E137c", frame[t]) /\ UNCHANGED ret
       ELSE Raise(t)
    /\ UNCHANGED <<environ, github_loader, headers, remote, data_cache,
                   config_cache, last_data_hash, last_config_hash, monitoring,
                   last_good>>

\* Lines 134-141 without the fallback of line 139: the handler re-raises
\* whatever the cache holds.
load_data_with_cache_137c_reraises(t) ==
    /\ pc[t] = "E137c"
    /\ Raise(t)
    /\ UNCHANGED <<environ, github_loader, headers, remote, data_cache,
                   config_cache, last_data_hash, last_config_hash, monitoring,
                   last_good>>

\* Line 137, second operand: self.config_cache is not None
load_data_with_cache_137c(t) ==
    /\ pc[t] = "E137c"
    /\ IF config_cache # NoObj
       THEN Step(t, "E139", frame[t]) /\ UNCHANGED ret
       ELSE Raise(t)
    /\ UNCHANGED <<environ, github_loader, headers, remote, data_cache,
                   config_cache, last_data_hash, last_config_hash, monitoring,
                   last_good>>

\* The first item of a return statement: self.data_cache.copy(), an
\* AttributeError when the attribute is None by now.
CopyDataCache(t, at) ==
    /\ IF data_cache # NoObj
       THEN Step(t, at, [frame[t] EXCEPT !.copy = data_cache, !.own = TRUE])
            /\ UNCHANGED ret
       ELSE Raise(t)
    /\ UNCHANGED <<environ, github_loader, headers, remote, data_cache,
                   config_cache, last_data_hash, last_config_hash, monitoring,
                   last_good>>

\* The second item of a return statement: self.config_cache, as it is now.
ReturnWithConfigCache(t) ==
    /\ Return(t, frame[t].copy, config_cache)
    /\ UNCHANGED <<environ, github_loader, headers, remote, data_cache,
                   config_cache, last_data_hash, last_config_hash, monitoring,
                   last_good>>

\* Line 139: return self.data_cache.copy(), self.config_cache
load_data_with_cache_139(t) ==
    /\ pc[t] = "E139"
    /\ CopyDataCache(t, "E139c")

load_data_with_cache_139c(t) ==
    /\ pc[t] = "E139c"
    /\ ReturnWithConfigCache(t)

\* Line 143: return self.data_cache.copy(), self.config_cache
load_data_with_cache_143(t) ==
    /\ pc[t] = "L143"
    /\ CopyDataCache(t, "L143c")

load_data_with_cache_143c(t) ==
    /\ pc[t] = "L143c"
    /\ ReturnWithConfigCache(t)

load_data_with_cache(t) ==
    \/ load_data_with_cache_116(t)
    \/ load_data_with_cache_116c(t)
    \/ load_data_with_cache_121(t)
    \/ load_data_with_cache_122(t)
    \/ load_data_with_cache_125(t)
    \/ load_data_with_cache_130(t)
    \/ load_data_with_cache_137(t)
    \/ load_data_with_cache_137c(t)
    \/ load_data_with_cache_139(t)
    \/ load_data_with_cache_139c(t)
    \/ load_data_with_cache_143(t)
    \/ load_data_with_cache_143c(t)

\* The caller changes in place the dataset a load handed to it. The change
\* is seen through every reference to the same object: through the cache and
\* through what other threads hold when the dataset is not the caller's own.
mutate_dataset(t) ==
    LET Same(o) == o.rid = ret[t].df.rid /\ o.val = ret[t].df.val
        Changed(o) == [o EXCEPT !.val = -@] IN
    /\ pc[t] = "idle"
    /\ ret[t].kind = "ok"
    /\ ret[t].df.val > 0
    /\ ret' = [u \in Threads |->
                 IF u = t \/ (~ret[t].own /\ ~ret[u].own /\ ret[u].kind = "ok" /\ Same(ret[u].df))
                 THEN [ret[u] EXCEPT !.df = Changed(@)] ELSE ret[u]]
    /\ data_cache' = IF ~ret[t].own /\ Same(data_cache)
                     THEN Changed(data_cache) ELSE data_cache
    /\ UNCHANGED <<environ, github_loader, headers, remote, config_cache,
                   last_data_hash, last_config_hash, monitoring, last_good,
                   pc, frame>>

\* The caller changes in place the config list a load handed to it (an
\* append, a changed hive entry). Lines 139 and 143 return self.config_cache
\* itself, so the list is the object the cache refers to and the object
\* every load since the last reload returned.
mutate_config(t) ==
    LET Same(o) == o.rid = ret[t].cfg.rid
        Changed(o) == [o EXCEPT !.val = -@] IN
    /\ pc[t] = "idle"
    /\ ret[t].kind = "ok"
    /\ ret[t].cfg.val > 0
    /\ ret' = [u \in Threads |->
                 IF ret[u].kind = "ok" /\ Same(ret[u].cfg)
                 THEN [ret[u] EXCEPT !.cfg = Changed(@)] ELSE ret[u]]
    /\ config_cache' = IF Same(config_cache)
                       THEN Changed(config_cache) ELSE config_cache
    /\ UNCHANGED <<environ, github_loader, headers, remote, data_cache,
                   last_data_hash, last_config_hash, monitoring, last_good,
                   pc, frame>>

\* ------------------------------------------------------ specifications
\* The next step of a call of load_beehive_data_from_json.
LoadStep(t) ==
    \/ load_beehive_data_from_json_179(t)
    \/ start_monitoring_147(t)
    \/ start_monitoring_150(t)
    \/ load_data_with_cache(t)
    \/ check_for_updates(t)

\* A thread of the dashboard: update_dashboard (src/dashboard.py:262-266)
\* loads on every callback.
DashStep(t) ==
    \/ load_beehive_data_from_json(t)
    \/ LoadStep(t)

\* The refresh endpoint (src/main.py:38-42).
RefreshStep(t) ==
    \/ refresh_data(t)
    \/ refresh_data_223(t)
    \/ refresh_data_224(t)
    \/ LoadStep(t)

\* The info endpoint (src/main.py:32-36).
InfoStep(t) ==
    \/ get_data_info(t)
    \/ get_data_info_198(t)
    \/ get_data_info_199(t)
    \/ get_data_info_211(t)

MonitorStep(m) ==
    \/ monitor_loop_153(m)
    \/ check_for_updates(m)

\* Commits that keep both files a dataset and a list of hives.
Commits == \E a \in Artifacts : RemoteChange(a)

Environment == Commits \/ RemoteNull

\* One caller at a time: the calls of the entry points follow one another
\* while the repository changes, and the monitor thread is not scheduled.
Next ==
    \/ Environment
    \/ load_beehive_data_from_json("dash")
    \/ force_check_updates("dash")
    \/ RefreshStep("dash")
    \/ InfoStep("dash")

Spec == Init /\ [][Next]_vars

\* The dashboard loading while the monitor thread it started polls and
\* well-formed commits arrive.
NextPoll ==
    \/ Commits
    \/ DashStep("dash")
    \/ \E m \in Monitors : MonitorStep(m)

SpecPoll == Init /\ [][NextPoll]_vars

\* A dashboard callback and the refresh endpoint served at the same time,
\* over a repository that does not change meanwhile.
NextMT ==
    \/ DashStep("dash")
    \/ RefreshStep("api")

SpecMT == Init /\ [][NextMT]_vars

\* The monitoring switch: two threads call start_monitoring and
\* stop_monitoring while the monitor threads they started poll a repository
\* that does not change.
NextMon ==
    \/ \E t \in Callers :
          \/ start_monitoring(t)
          \/ start_monitoring_147(t)
          \/ start_monitoring_150(t)
          \/ stop_monitoring(t)
    \/ \E m \in Monitors : MonitorStep(m)

SpecMon == Init /\ [][NextMon]_vars

\* The process from its start: the module is imported (line 171), and once
\* the loader exists the dashboard loads through it while commits arrive.
NextInit ==
    \/ GitHubDataLoader_init
    \/ /\ github_loader = "loader"
       /\ \/ Commits
          \/ DashStep("dash")

SpecInit == InitEnv /\ [][NextInit]_vars

\* A dashboard thread that loads again and again and changes in place the
\* dataset and the config list it was handed, while commits arrive.
NextCopy ==
    \/ Environment
    \/ DashStep("dash")
    \/ mutate_dataset("dash")
    \/ mutate_config("dash")

SpecCopy == Init /\ [][NextCopy]_vars

\* The check-updates endpoint (src/main.py:55-59) served while a dashboard
\* callback loads and the monitor thread polls, over a repository that does
\* not change meanwhile.
NextCheck ==
    \/ DashStep("dash")
    \/ force_check_updates("api")
    \/ check_for_updates("api")
    \/ \E m \in Monitors : MonitorStep(m)

SpecCheck == Init /\ [][NextCheck]_vars

\* A monitor thread polls while no other monitor thread is inside a check:
\* a check is two requests made once every check_interval (line 41) seconds.
PollStep(m) ==
    /\ \A k \in Monitors \ {m} : pc[k] \in {"dead", "P153"}
    /\ MonitorStep(m)

\* One thread using the public entry points one call after another: loads,
\* refreshes and stop_monitoring, with the monitor threads polling at any
\* point of its calls.
NextLife ==
    \/ DashStep("dash")
    \/ RefreshStep("dash")
    \/ stop_monitoring("dash")
    \/ \E m \in Monitors : PollStep(m)

SpecLife == Init /\ [][NextLife]_vars

\* One thread switching the monitoring on and off. A monitor thread that
\* can take a step eventually does: its lookups return, its sleep of line
\* 156 ends and the interpreter schedules it.
NextStop ==
    \/ start_monitoring("dash")
    \/ start_monitoring_147("dash")
    \/ start_monitoring_150("dash")
    \/ stop_monitoring("dash")
    \/ \E m \in Monitors : MonitorStep(m)

SpecStop ==
    /\ Init
    /\ [][NextStop]_vars
    /\ \A m \in Monitors : WF_vars(MonitorStep(m))

\* ------------------------------------------------------------- claims
Populated == data_cache # NoObj /\ config_cache # NoObj

Cache == [d |-> data_cache, c |-> config_cache]

\* The call of thread t ends in this step.
Finishes(t) == pc[t] # "idle" /\ pc'[t] = "idle"

\* Nobody is inside a call: request threads wait for a request, monitor
\* threads sleep or are gone.
Quiescent ==
    /\ \A t \in Callers : pc[t] = "idle"
    /\ \A m \in Monitors : pc[m] \in {"dead", "P153"}

\* The recorded baseline is the fingerprint of what is on GitHub now, a
\* dataset and a list of hives, while the cache holds other content:
\* check_for_updates compares equal from here on, so no load reloads while
\* the repository stays as it is.
ChangeLost ==
    /\ Quiescent
    /\ Populated
    /\ remote["hives_config.json"] # 0
    /\ last_data_hash = Sha("beehive_data.json", remote["beehive_data.json"])
    /\ last_config_hash = Sha("hives_config.json", remote["hives_config.json"])
    /\ \/ data_cache.val # Json("beehive_data.json", remote["beehive_data.json"])
       \/ config_cache.val # Json("hives_config.json", remote["hives_config.json"])

\* C1: a change of a remote fingerprint made after the cache was populated
\* reaches a later load even when the monitor thread is the one whose
\* check_for_updates sees it first: when a check of the monitor returns true,
\* it does not leave the loader with the new fingerprints as its baseline and
\* the old content in its cache.
C1_PollerChangeReachesLoad ==
    [][\A m \in Monitors :
          (/\ pc[m] = "C97"
           /\ pc'[m] = "P153"
           /\ (frame[m].data_updated \/ frame[m].config_updated))
          => ~ChangeLost']_vars

\* C2: a load that finds the cache populated, detects a change and fails to
\* fetch or parse one of the artifacts does not raise; it returns a dataset
\* equal in value to the cached one with the cached config, and the cache is
\* as it was.
C2_FailedReloadServesCache ==
    [][\A t \in Callers :
          (Finishes(t) /\ frame[t].cause = "changed" /\ frame[t].failed = "artifact")
          => /\ ret'[t].kind = "ok"
             /\ ret'[t].df.val = last_good.d.val
             /\ ret'[t].cfg = last_good.c
             /\ Cache' = last_good
             /\ Cache' = Cache
             /\ last_good' = last_good]_vars

\* A failed reload after a detected change is about to hand out the cache.
C2_Witness ==
    /\ pc["dash"] = "E139c"
    /\ frame["dash"].cause = "changed"
    /\ frame["dash"].failed = "artifact"
    /\ frame["dash"].copy = data_cache

\* C3: once a load has succeeded, no later call of load or refresh ends with
\* an error, and the pair of the last good reload is still cached when the
\* call has ended.
C3_LaterFailuresMasked ==
    (last_good # NoPair /\ \A t \in Callers : pc[t] = "idle")
    => /\ \A t \in Callers : ret[t].kind # "raise"
       /\ Cache = last_good

\* C4: a load that finds the cache empty and fails to fetch or parse raises
\* to its caller and leaves data_cache and config_cache None.
C4_FirstLoadFailureRaises ==
    [][\A t \in Callers :
          (Finishes(t) /\ frame[t].cause = "no_data" /\ frame[t].failed = "artifact")
          => /\ ret'[t].kind = "raise"
             /\ data_cache' = NoObj
             /\ config_cache' = NoObj]_vars

\* A call has raised and the cache is empty.
C4_Witness ==
    /\ ret["dash"].kind = "raise"
    /\ pc["dash"] = "idle"
    /\ Cache = NoPair

\* C5: the cached dataset and the cached config come from the same
\* successful reload: except between the two assignments of a reload that
\* succeeded (lines 129-130) or of a refresh (lines 223-224), and so also
\* in the handler of a reload that failed, the cache is empty or holds the
\* whole pair of one completed reload.
C5_ReloadAllOrNothing ==
    (\A t \in Callers : pc[t] \notin {"L130", "R224"})
    => /\ data_cache.rid = config_cache.rid
       /\ (Cache = NoPair \/ Cache = last_good)

\* C6: a load never returns a dataset built by one reload with a config
\* built by another reload, or with none.
C6_NoTornPair ==
    \A t \in Callers :
        ret[t].kind = "ok" => ret[t].df.rid = ret[t].cfg.rid

\* A genuine transition: two fingerprints, and they differ.
Transition(old, new) == old # None /\ new # None /\ new # old

\* C7: check_for_updates does not count an artifact as updated when the
\* fingerprint it has just observed for it is None.
C7_NoneNeverReported ==
    \A t \in Threads :
        pc[t] \in {"C96", "C97"}
        => /\ frame[t].data_updated => frame[t].data_hash # None
           /\ frame[t].config_updated => frame[t].config_hash # None

\* C8: a check returns true exactly when the fingerprint of one of the two
\* artifacts has gone from the recorded one to a different one, and false
\* when both observed fingerprints are the recorded ones.
C8_TrueOncePerTransition ==
    \A t \in Threads :
        pc[t] = "C96"
        => ((frame[t].data_updated \/ frame[t].config_updated)
            <=> (\/ Transition(last_data_hash, frame[t].data_hash)
                 \/ Transition(last_config_hash, frame[t].config_hash)))

\* C9: an artifact whose recorded baseline is None is not counted as
\* updated, whatever is observed for it; a check made while both baselines
\* are None therefore reports no change.
C9_NoneBaselineSilent ==
    \A t \in Threads :
        pc[t] = "C96"
        => /\ last_data_hash = None => ~frame[t].data_updated
           /\ last_config_hash = None => ~frame[t].config_updated

\* A check has compared real fingerprints against baselines that are None.
C9_Witness ==
    /\ pc["dash"] = "C96"
    /\ last_data_hash = None
    /\ last_config_hash = None
    /\ frame["dash"].data_hash # None
    /\ frame["dash"].config_hash # None

\* C10: when a call of check_for_updates completes, the recorded baseline is
\* the pair of fingerprints that call observed, whatever it returns.
C10_BaselineIsObserved ==
    [][\A t \in Threads :
          (pc[t] = "C97" /\ pc'[t] # "C97")
          => /\ last_data_hash' = frame[t].data_hash
             /\ last_config_hash' = frame[t].config_hash]_vars

\* A check has returned false and one has returned true, each leaving the
\* fingerprints of the repository as the baseline.
C10_Witness ==
    /\ ret["dash"].kind = "bool"
    /\ ret["dash"].flag
    /\ last_data_hash = Sha("beehive_data.json", 2)
    /\ last_config_hash = Sha("hives_config.json", 1)

\* Fingerprint h is the one of the file version whose parsed content is val.
Identifies(filename, h, val) ==
    \E v \in 0..MaxVersion : h = Sha(filename, v) /\ val = Json(filename, v)

\* C11: a change of the remote content made before the first fingerprint
\* check is part of what the initial load cached: when a check that finds
\* both baselines None over a populated cache has observed two fingerprints,
\* the fingerprints it is about to record identify the cached contents.
C11_FirstCheckMatchesCache ==
    \A t \in Threads :
        (/\ pc[t] = "C96"
         /\ last_data_hash = None
         /\ last_config_hash = None
         /\ Populated
         /\ frame[t].data_hash # None
         /\ frame[t].config_hash # None)
        => /\ Identifies("beehive_data.json", frame[t].data_hash, data_cache.val)
           /\ Identifies("hives_config.json", frame[t].config_hash, config_cache.val)

\* C12: a load that finds the cache populated, detects a change and fetches
\* and parses both artifacts stores the new dataset and the new config as
\* the cache and returns them.
C12_ChangeReloadsAndReturns ==
    [][\A t \in Callers :
          (Finishes(t) /\ frame[t].cause = "changed" /\ frame[t].failed # "artifact")
          => /\ ret'[t].kind = "ok"
             /\ data_cache' = frame[t].df
             /\ data_cache'.val = frame[t].data
             /\ config_cache' = [rid |-> frame[t].df.rid, val |-> frame[t].hives_config]
             /\ ret'[t].df = data_cache'
             /\ ret'[t].cfg = config_cache']_vars

\* C13: a load that finds the cache populated and detects no change returns
\* the cached dataset and config; the two fingerprint lookups are its only
\* network calls, and it assigns nothing to the cache.
C13_UnchangedServesCacheOffline ==
    [][\A t \in Callers :
          (Finishes(t) /\ frame[t].cause = "unchanged")
          => /\ ret'[t].kind = "ok"
             /\ ret'[t].df = data_cache
             /\ ret'[t].cfg = config_cache
             /\ frame[t].lookups = 2
             /\ frame[t].fetches = 0
             /\ ~frame[t].wrote
             /\ Cache' = Cache
             /\ Cache = last_good]_vars

\* A load whose check found no change is about to return the cache.
C13_Witness ==
    /\ pc["dash"] = "L143c"
    /\ frame["dash"].cause = "unchanged"
    /\ frame["dash"].copy = data_cache
    /\ last_data_hash # None

\* C14: every call of refresh_data fetches the content of both artifacts,
\* whatever the fingerprints are and whatever other threads do meanwhile:
\* when the call ends it has made both content fetches, or the first one
\* and that one raised.
C14_RefreshAlwaysFetches ==
    [][\A t \in Callers :
          (Finishes(t) /\ frame[t].op = "refresh")
          => \/ frame[t].fetches = 2
             \/ frame[t].fetches = 1 /\ frame[t].failed = "artifact"]_vars

\* The monitor threads whose loop has not ended.
ActiveLoops == {m \in Monitors : pc[m] # "dead"}

\* C15: at most one polling loop is active at any time, for every sequence
\* and interleaving of start_monitoring and stop_monitoring calls.
C15_AtMostOneLoop == Cardinality(ActiveLoops) <= 1

\* C16: stop_monitoring only clears the flag: the step that clears it
\* moves no thread and touches neither the cache nor the baseline, so a
\* check in flight goes on. A loop ends only where it tests the flag (line
\* 153) and finds it cleared, and a loop that tests a cleared flag begins no
\* further check. When the flag stays cleared, every loop eventually ends.
C16_StopEndsLoop ==
    /\ [][(monitoring /\ ~monitoring')
           => /\ pc' = pc
              /\ frame' = frame
              /\ UNCHANGED <<data_cache, config_cache, last_data_hash,
                             last_config_hash>>]_vars
    /\ [][\A m \in Monitors :
             /\ (pc[m] # "dead" /\ pc'[m] = "dead")
                => (pc[m] = "P153" /\ ~monitoring)
             /\ (pc[m] = "P153" /\ ~monitoring /\ pc'[m] # pc[m])
                => pc'[m] = "dead"]_vars
    /\ (<>[](~monitoring) => <>[](ActiveLoops = {}))

\* A loop that has completed a check has ended after stop_monitoring.
C16_Witness ==
    /\ ret["dash"].kind = "stopped"
    /\ ~monitoring
    /\ pc["m1"] = "dead"
    /\ last_config_hash # None

\* C17: a failed fingerprint lookup in a polling iteration does not end the
\* loop and reaches no caller: a monitor thread ends only when the flag is
\* cleared, its steps leave the result of every caller alone, and when the
\* flag stays set each monitor thread that is alive begins checks again and
\* again, whatever its lookups return.
C17_PollingSurvivesFailures ==
    /\ [][\A m \in Monitors :
             /\ (pc[m] # "dead" /\ pc'[m] = "dead") => ~monitoring
             /\ (pc[m] # "dead" /\ pc'[m] # pc[m]) => ret' = ret]_vars
    /\ (<>[]monitoring
        => \A m \in Monitors : <>[](pc[m] = "dead") \/ []<>(pc[m] = "C88"))

\* The only loop begins an iteration after one whose config lookup failed.
C17_Witness ==
    /\ monitoring
    /\ pc["m1"] = "C88"
    /\ pc["m2"] = "dead"
    /\ last_data_hash # None
    /\ last_config_hash = None

\* C18: check_for_updates never reloads, whether the monitor thread or
\* force_check_updates calls it: no step of such a call fetches content,
\* and none changes data_cache, config_cache or anything but the two
\* baseline fingerprints of the loader.
C18_CheckOnlyMovesBaseline ==
    [][\A t \in Threads :
          (frame[t].op \in {"check", "poll"} /\ pc'[t] # pc[t])
          => /\ UNCHANGED <<data_cache, config_cache, monitoring, last_good>>
             /\ frame[t].fetches = 0
             /\ \A u \in Threads \ {t} : pc'[u] = pc[u] /\ frame'[u] = frame[u]]_vars

\* A check made through force_check_updates has reported a change over a
\* populated cache, which is as the last reload left it.
C18_Witness ==
    /\ ret["api"].kind = "bool"
    /\ ret["api"].flag
    /\ Populated
    /\ Cache = last_good
    /\ pc["m1"] = "C97"

\* C19: get_data_info does not change the loader: no step of the call,
\* whether its fetches succeed or fail, changes data_cache, config_cache,
\* a baseline fingerprint or the monitoring flag.
C19_InfoLeavesLoaderAlone ==
    [][\A t \in Callers :
          ((frame[t].op = "info" \/ frame'[t].op = "info") /\ pc'[t] # pc[t])
          => UNCHANGED <<data_cache, config_cache, last_data_hash,
                         last_config_hash, monitoring, last_good>>]_vars

\* get_data_info has returned its dictionary over a populated cache and a
\* recorded baseline.
C19_Witness ==
    /\ ret["dash"].kind = "info"
    /\ ret["dash"].flag
    /\ Populated
    /\ last_data_hash # None

\* C20: two consecutive loads with no commit from the start of the first to
\* the end of the second return datasets
\* of equal content, and each is the caller's own copy: changing a returned
\* dataset in place changes neither the cached dataset nor what another load
\* returned or returns.
C20_EqualIndependentCopies ==
    [][\A t \in Callers :
          /\ (Finishes(t) /\ frame[t].op = "load" /\ ret'[t].kind = "ok"
                 /\ frame[t].prev # None)
             => /\ ret'[t].df.val = frame[t].prev
                /\ ret'[t].own
          /\ (pc[t] = "idle" /\ ret[t].kind = "ok" /\ ret'[t].kind = "ok"
                 /\ ret'[t].df # ret[t].df)
             => /\ data_cache' = data_cache
                /\ \A u \in Callers \ {t} : ret'[u] = ret[u]]_vars

\* A variable the deployment did not provide: not set, or set to nothing.
Missing(n) == environ[n] \in {Unset, ""}

\* C21: constructing the loader raises the configuration error exactly when
\* the repository owner or the repository name is missing; a missing token
\* is never an error; a constructed loader has an empty cache, null baseline
\* fingerprints and monitoring off.
C21_ConstructorNeedsOwnerAndName ==
    [][github_loader = "unbound" /\ github_loader' # "unbound"
        => /\ github_loader' = "ValueError"
              <=> (Missing("GITHUB_REPO_OWNER") \/ Missing("GITHUB_REPO_NAME"))
           /\ github_loader' = "loader"
              => /\ data_cache' = NoObj /\ config_cache' = NoObj
                 /\ last_data_hash' = None /\ last_config_hash' = None
                 /\ monitoring' = FALSE]_vars

\* A loader constructed without a token has served a load.
C21_Witness ==
    /\ github_loader = "loader"
    /\ Missing("GITHUB_TOKEN")
    /\ "Authorization" \notin headers
    /\ ret["dash"].kind = "ok"

\* C22: a load that follows a load whose reload failed after a detected
\* change (and that returned the cache), with no commit since and with every
\* lookup and fetch of its own succeeding, returns the content now on the
\* repository. Calls follow one another here, so the baselines a call leaves
\* are the fingerprints its own check observed (lines 96-97): both are set
\* exactly when both lookups succeeded.
C22_FailedReloadIsRetried ==
    [][\A t \in Callers :
          (Finishes(t) /\ frame[t].op = "load" /\ frame[t].retry
             /\ last_data_hash # None /\ last_config_hash # None
             /\ frame[t].failed = "no")
          => /\ ret'[t].kind = "ok"
             /\ ret'[t].df.val = Json("beehive_data.json", remote["beehive_data.json"])
             /\ ret'[t].cfg.val = Json("hives_config.json", remote["hives_config.json"])]_vars

\* C23: a load_data_with_cache() call that found both cache attributes set at
\* line 116 does not raise and returns a dataset and a config that are not
\* None, also when refresh_data() runs in another thread meanwhile.
C23_PopulatedCallReturnsPair ==
    [][\A t \in Callers :
          (Finishes(t) /\ frame[t].cause \in {"changed", "unchanged"})
          => /\ ret'[t].kind = "ok"
             /\ ret'[t].df # NoObj
             /\ ret'[t].cfg # NoObj]_vars

\* Two calls of check_for_updates are about to report the same fingerprint
\* of an artifact as a change.
ReportedTwice ==
    \E t, u \in Threads :
        /\ t # u
        /\ pc[t] \in {"C96", "C97"} /\ pc[u] \in {"C96", "C97"}
        /\ \/ /\ frame[t].data_updated /\ frame[u].data_updated
              /\ frame[t].data_hash # None
              /\ frame[t].data_hash = frame[u].data_hash
           \/ /\ frame[t].config_updated /\ frame[u].config_updated
              /\ frame[t].config_hash # None
              /\ frame[t].config_hash = frame[u].config_hash

\* A fingerprint replaces a fingerprint of a later version (Sha grows with
\* the version).
GoesBack(old, new) == old # None /\ new # None /\ new < old

\* C24: with the poller and a foreground caller inside check_for_updates at
\* the same time, one change of a fingerprint is reported by one call only,
\* and a recorded baseline is never replaced by an older fingerprint.
C24_OneReportNoRegress ==
    [][/\ ~ReportedTwice'
       /\ ~GoesBack(last_data_hash, last_data_hash')
       /\ ~GoesBack(last_config_hash, last_config_hash')]_vars

\* C25: changing in place a config list that a load returned changes
\* neither the cached config list nor the config list a later load returns:
\* the cache and every returned list hold content as it was fetched.
C25_ConfigListIsolated ==
    [][\A t \in Callers :
          /\ (pc[t] = "idle" /\ ret[t].kind = "ok" /\ ret'[t].kind = "ok"
                 /\ ret'[t].cfg # ret[t].cfg)
             => config_cache' = config_cache
          /\ (Finishes(t) /\ frame[t].op = "load" /\ ret'[t].kind = "ok")
             => ret'[t].cfg.val >= 0]_vars

\* C26: when a call of load_beehive_data_from_json() or refresh_data() ends,
\* by returning or by raising, the monitoring flag is set, also when
\* stop_monitoring() was called before it.
C26_LoadLeavesMonitoringOn ==
    [][\A t \in Callers :
          (Finishes(t) /\ frame[t].op \in {"load", "refresh"}) => monitoring']_vars

\* A call has raised with the flag set while both monitor threads are
\* alive: monitoring was started, stopped, and started again by a call.
C26_Witness ==
    /\ ret["dash"].kind = "raise"
    /\ pc["dash"] = "idle"
    /\ monitoring
    /\ \A m \in Monitors : pc[m] # "dead"

====
